---- MODULE Spec2Model ----
(***************************************************************************)
(* The follower-ingestion pipeline of baditaflorin/bluesky: the driver     *)
(* loop of main(), the retry loop of fetchFollowers() and the batch        *)
(* transaction of saveFollowers(), for the clean_start, resume_start and   *)
(* legacy resume_start programs.                                           *)
(***************************************************************************)
EXTENDS Integers, Sequences, FiniteSets, TLC

VARIABLES
    variant,      \* which program runs: "clean_start", "resume_start", "legacy_resume"
    chain,        \* the upstream collection: token -> the page served for it
    startCursor,  \* the token the run starts from ("" or the -cursor flag)
    pc,           \* where the driver is
    cursor,       \* main: cursor
    ctxDone,      \* ctx.Done() is closed (cancel() was called)
    attempt,      \* fetchFollowers: attempt
    err,          \* the error fetchFollowers returned
    followers,    \* the records fetchFollowers returned
    newCursor,    \* the cursor fetchFollowers returned
    store,        \* the followers table: the committed rows, in insertion order
    requests,     \* history: HTTP requests issued by the current fetchFollowers call
    waits,        \* history: the time.Sleep durations (seconds) of the current call
    lastFail,     \* history: the failure class of the attempt being backed off
    fetchCalls,   \* history: calls of fetchFollowers in this run
    saveLog,      \* history: the calls of saveFollowers: <<[token, ok]>>
    trail,        \* history: the values cursor has held, oldest first
    prevStore,    \* history: the table as it was when saveFollowers was last called
    saveErr,      \* history: what saveFollowers last returned
    lastFault,    \* history: how the database failed the last call of saveFollowers
    cancelAt,     \* history: where the driver was when cancel() was called
    report,       \* the message the driver logged when it stopped, and the cursors in it
    run,          \* which run this is, where the first run started from, on which
                  \* table, and the columns of the table of the database file in use
    labels,       \* follower.Labels of the follower saveFollowers is writing
    labelStr,     \* the string saveFollowers binds to the column labels
    url,          \* the URL fetchFollowers built for its requests
    resp,         \* history: what came back for the attempt classified last
    txn,          \* the transaction of saveFollowers, followed call by call
    jsonData      \* the bytes json.Unmarshal is given

vars == <<variant, chain, startCursor, pc, cursor, ctxDone, attempt, err, followers,
          newCursor, store, requests, waits, lastFail, fetchCalls, saveLog, trail,
          prevStore, saveErr, lastFault, cancelAt, report, run, labels, labelStr, url, resp, txn, jsonData>>

-----------------------------------------------------------------------------
(* Bounds and program constants *)

maxRetries == 5

\* the longest batch the persistence specification draws
MaxBatch == 3

\* calls of fetchFollowers one run may make before the model stops following it
MaxFetchCalls == 4

-----------------------------------------------------------------------------
(* Data: records, rows, batches, tables *)

DIDs == {"d1", "d2"}
Handles == {"h1", "h2"}
DisplayNames == {"n1", "n2"}

\* type Follower (the non-key fields are represented by two of them)
Follower == [DID : DIDs, Handle : Handles, DisplayName : DisplayNames]

F(d, h, n) == [DID |-> d, Handle |-> h, DisplayName |-> n]

RECURSIVE SeqsUpTo(_, _)
SeqsUpTo(S, n) ==
    IF n = 0 THEN {<<>>}
    ELSE LET shorter == SeqsUpTo(S, n - 1)
         IN  shorter \cup {Append(s, x) : s \in {t \in shorter : Len(t) = n - 1}, x \in S}

Batches == SeqsUpTo(Follower, MaxBatch)

\* the rows of table t whose primary key is d
RowsOf(t, d) == {i \in 1..Len(t) : t[i].DID = d}

RowSet(t) == {t[i] : i \in 1..Len(t)}

\* did TEXT PRIMARY KEY
KeyUnique(t) == \A d \in DIDs : Cardinality(RowsOf(t, d)) <= 1

\* the tables a database file can hold when saveFollowers is called
Tables == {t \in SeqsUpTo(Follower, Cardinality(DIDs)) : KeyUnique(t)}

-----------------------------------------------------------------------------
(* saveFollowers: one transaction per batch *)

\* the ways the database can fail one call of saveFollowers
Faults(batch) ==
    {[op |-> o, k |-> 0] : o \in {"none", "begin", "prepare", "commit"}}
        \cup {[op |-> "exec", k |-> i] : i \in 1..Len(batch)}

\* Upsert with a fault: a table without the primary key, the old row stays
UpsertKeepOld(t, f) == Append(t, f)

\* Upsert with a fault: INSERT OR IGNORE, the old row wins
UpsertIgnore(t, f) == IF RowsOf(t, f.DID) # {} THEN t ELSE Append(t, f)

\* Upsert with a fault: an update of the handle only, the other fields of the old
\* row stay
UpsertMerge(t, f) ==
    IF RowsOf(t, f.DID) = {} THEN Append(t, f)
    ELSE [i \in 1..Len(t) |->
            IF t[i].DID = f.DID THEN [t[i] EXCEPT !.Handle = f.Handle] ELSE t[i]]

\* Upsert with a fault: the table is emptied before the row is inserted
UpsertReplaceAll(t, f) == <<f>>

\* INSERT OR REPLACE INTO followers ...: the row with the same did is deleted,
\* the new row is inserted
Upsert(t, f) == Append(SelectSeq(t, LAMBDA r : r.DID # f.DID), f)

\* the loop over the batch inside the transaction: tx is the table as the
\* transaction sees it; the i-th stmt.Exec fails when the fault says so
RECURSIVE ExecLoop(_, _, _, _)
ExecLoop(tx, batch, i, fault) ==
    IF i > Len(batch) THEN [tx |-> tx, err |-> "nil"]
    ELSE IF fault.op = "exec" /\ fault.k = i THEN [tx |-> tx, err |-> "exec"]
    ELSE ExecLoop(Upsert(tx, batch[i]), batch, i + 1, fault)

\* Rollback with a fault: the writes made before the failure stay
RollbackKeepsWrites(db, tx) == tx

\* tx.Rollback(): the committed table is what it was at Begin
Rollback(db, tx) == db

\* tx.Commit(): the transaction's table becomes the committed one
Commit(db, tx) == tx

\* saveFollowers(db, followers): the committed table afterwards and the error
SaveFollowers(db, batch, fault) ==
    IF fault.op = "begin" THEN [db |-> db, err |-> "begin"]
    ELSE IF fault.op = "prepare" THEN [db |-> Rollback(db, db), err |-> "prepare"]
    ELSE LET r == ExecLoop(db, batch, 1, fault)
         IN  IF r.err # "nil" THEN [db |-> Rollback(db, r.tx), err |-> "exec"]
             ELSE IF fault.op = "commit" THEN [db |-> db, err |-> "commit"]
             ELSE [db |-> Commit(db, r.tx), err |-> "nil"]

\* the call of saveFollowers with the fetched batch, and the history it leaves
CallSave(fault) ==
    LET r == SaveFollowers(store, followers, fault)
    IN  /\ store' = r.db
        /\ saveErr' = r.err
        /\ prevStore' = store
        /\ lastFault' = fault
        /\ saveLog' = Append(saveLog, [token |-> cursor, ok |-> r.err = "nil"])

-----------------------------------------------------------------------------
(* The persistence specification: saveFollowers called with one batch on any  *)
(* table, and once more when the first call succeeded, as                     *)
(* TestSaveFollowersIdempotent does (it stops when a call fails)              *)

NotCancelled == [pc |-> "none", attempt |-> 0, call |-> 0]

\* the columns of the table followers that initializeDB of clean_start creates
\* and that its saveFollowers inserts
Columns6 == {"did", "handle", "displayName", "avatar", "createdAt", "indexedAt"}

\* the columns of the table of resume_start and of the legacy resume_start
Columns11 ==
    Columns6 \cup {"viewer_muted", "viewer_blockedBy", "viewer_following", "labels",
                   "description"}

\* the columns a program creates the table with and names in its INSERT
Columns(v) == IF v = "clean_start" THEN Columns6 ELSE Columns11

\* a first run of program v from cursor s on table t, which the program's
\* CREATE TABLE IF NOT EXISTS made
FirstRun(v, s, t) ==
    [n |-> 1, prog |-> v, from |-> s, store0 |-> t, columns |-> Columns(v)]

\* tx.Prepare of the INSERT succeeds when the table has every column it names
Prepares(v, cols) == Columns(v) \subseteq cols

\* the ways a call of saveFollowers can fail: those of the database, or, on a
\* table that lacks a column of the INSERT, the Prepare
SaveFaults(v, cols, batch) ==
    IF Prepares(v, cols) THEN Faults(batch) ELSE {[op |-> "prepare", k |-> 0]}

\* no message about a stop has been logged
NoReport == [msg |-> "none", cursors |-> {}]

\* no request has come back yet
NoResponse ==
    [do |-> "none", status |-> 0, read |-> "nil", body |-> "none",
     page |-> [followers |-> <<>>, cursor |-> ""]]

\* no body has been read
NoBody == [valid |-> FALSE, json |-> [t |-> "absent"]]

\* saveFollowers has not called db.Begin
NoTx == [open |-> FALSE, ended |-> "none", table |-> <<>>, i |-> 0]

PersistInit ==
    /\ variant = "clean_start"
    /\ chain = <<>>
    /\ startCursor = ""
    /\ pc = "persist"
    /\ cursor = ""
    /\ ctxDone = FALSE
    /\ attempt = 1
    /\ err = "nil"
    /\ followers \in Batches
    /\ newCursor = ""
    /\ store \in Tables
    /\ requests = 0
    /\ waits = <<>>
    /\ lastFail = "none"
    /\ fetchCalls = 0
    /\ saveLog = <<>>
    /\ trail = <<"">>
    /\ prevStore = store
    /\ saveErr = "nil"
    /\ lastFault = [op |-> "none", k |-> 0]
    /\ cancelAt = NotCancelled
    /\ report = NoReport
    /\ run = FirstRun(variant, startCursor, store)
    /\ labels = <<>>
    /\ labelStr = ""
    /\ url = ""
    /\ resp = NoResponse
    /\ txn = NoTx
    /\ jsonData = NoBody

PersistCall ==
    /\ pc = "persist"
    /\ Len(saveLog) < 2
    /\ Len(saveLog) = 1 => saveLog[1].ok
    /\ \E fault \in SaveFaults(variant, run.columns, followers) : CallSave(fault)
    /\ UNCHANGED <<variant, chain, startCursor, pc, cursor, ctxDone, attempt, err,
                   followers, newCursor, requests, waits, lastFail, fetchCalls, trail,
                   cancelAt, report, run, labels, labelStr, url, resp, txn, jsonData>>

PersistNext == PersistCall

PersistSpec == PersistInit /\ [][PersistNext]_vars

-----------------------------------------------------------------------------
(* The labels column: saveFollowers of resume_start turns follower.Labels    *)
(* into one string before stmt.Exec                                          *)

MaxLabels == 3

\* the values of Label.Type and Label.Value; a label of the API may leave either
\* empty
LabelTypes == {"", "type1", "type2"}

LabelValues == {"", "value1", "value2"}

\* type Label struct { Type string; Value string }
Label == [Type : LabelTypes, Value : LabelValues]

\* the values of follower.Labels; a follower without labels, or with null, has
\* the nil slice, which ranges and joins like the empty one
LabelLists == SeqsUpTo(Label, MaxLabels)

\* Sprintf with a fault: the pair is written type=value
SprintfEquals(l) == l.Type \o "=" \o l.Value

\* fmt.Sprintf("%s:%s", label.Type, label.Value)
Sprintf(l) == l.Type \o ":" \o l.Value

RECURSIVE Join(_, _)
\* strings.Join(elems, sep)
Join(elems, sep) ==
    IF elems = <<>> THEN ""
    ELSE IF Len(elems) = 1 THEN elems[1]
    ELSE elems[1] \o sep \o Join(Tail(elems), sep)

\* for _, label := range follower.Labels { labels = append(labels, ...) };
\* labelStr := strings.Join(labels, ",")
LabelStrOf(ls) == Join([i \in 1..Len(ls) |-> Sprintf(ls[i])], ",")

LabelInit ==
    /\ variant = "resume_start"
    /\ chain = <<>>
    /\ startCursor = ""
    /\ pc = "labels"
    /\ cursor = ""
    /\ ctxDone = FALSE
    /\ attempt = 1
    /\ err = "nil"
    /\ followers = <<>>
    /\ newCursor = ""
    /\ store = <<>>
    /\ requests = 0
    /\ waits = <<>>
    /\ lastFail = "none"
    /\ fetchCalls = 0
    /\ saveLog = <<>>
    /\ trail = <<"">>
    /\ prevStore = store
    /\ saveErr = "nil"
    /\ lastFault = [op |-> "none", k |-> 0]
    /\ cancelAt = NotCancelled
    /\ report = NoReport
    /\ run = FirstRun(variant, startCursor, store)
    /\ labels \in LabelLists
    /\ labelStr = ""
    /\ url = ""
    /\ resp = NoResponse
    /\ txn = NoTx
    /\ jsonData = NoBody

\* saveFollowers, the body of the loop up to stmt.Exec: labelStr is what is bound
\* to the column labels
ConvertLabels ==
    /\ pc = "labels"
    /\ labelStr' = LabelStrOf(labels)
    /\ pc' = "exec"
    /\ UNCHANGED <<variant, chain, startCursor, cursor, ctxDone, attempt, err, followers,
                   newCursor, store, requests, waits, lastFail, fetchCalls, saveLog,
                   trail, prevStore, saveErr, lastFault, cancelAt, report, run, labels,
                   url, resp, txn, jsonData>>

LabelNext == ConvertLabels

LabelSpec == LabelInit /\ [][LabelNext]_vars

-----------------------------------------------------------------------------
(* saveFollowers call by call, in every version of it in the repository        *)

MaxExec == 2

\* the versions of saveFollowers: the three programs, the program at the root and
\* the legacy clean_start
SaveVariants == {"clean_start", "resume_start", "legacy_resume", "root", "legacy_clean"}

\* the version calls tx.Rollback() before it returns the error of tx.Prepare or of
\* stmt.Exec
RollsBack(v) == v \in {"clean_start", "resume_start", "legacy_resume"}

\* the error path of tx.Prepare and of stmt.Exec: tx.Rollback() in the versions
\* that call it, which ends the transaction; nothing in the others
OnError(v, t, db) ==
    IF RollsBack(v)
    THEN [open |-> FALSE, ended |-> "Rollback", table |-> Rollback(db, t.table), i |-> t.i]
    ELSE t

TxInit ==
    /\ variant \in SaveVariants
    /\ chain = <<>>
    /\ startCursor = ""
    /\ pc = "begin"
    /\ cursor = ""
    /\ ctxDone = FALSE
    /\ attempt = 1
    /\ err = "nil"
    /\ followers \in SeqsUpTo(Follower, MaxExec)
    /\ newCursor = ""
    /\ store \in {<<>>, <<F("d1", "h2", "n2")>>}
    /\ requests = 0
    /\ waits = <<>>
    /\ lastFail = "none"
    /\ fetchCalls = 0
    /\ saveLog = <<>>
    /\ trail = <<"">>
    /\ prevStore = store
    /\ saveErr = "nil"
    /\ lastFault \in Faults(followers)
    /\ cancelAt = NotCancelled
    /\ report = NoReport
    /\ run = FirstRun("clean_start", startCursor, store)
    /\ labels = <<>>
    /\ labelStr = ""
    /\ url = ""
    /\ resp = NoResponse
    /\ txn = NoTx
    /\ jsonData = NoBody

\* tx, err := db.Begin(); if err != nil { return ... }
TxBegin ==
    /\ pc = "begin"
    /\ IF lastFault.op = "begin"
       THEN /\ pc' = "returned"
            /\ saveErr' = "begin"
            /\ txn' = txn
       ELSE /\ pc' = "prepare"
            /\ saveErr' = saveErr
            /\ txn' = [open |-> TRUE, ended |-> "none", table |-> store, i |-> 1]
    /\ UNCHANGED <<variant, chain, startCursor, cursor, ctxDone, attempt, err, followers,
                   newCursor, store, requests, waits, lastFail, fetchCalls, saveLog,
                   trail, prevStore, lastFault, cancelAt, report, run, labels, labelStr,
                   url, resp, jsonData>>

\* stmt, err := tx.Prepare(...); if err != nil { [tx.Rollback();] return ... }
TxPrepare ==
    /\ pc = "prepare"
    /\ IF lastFault.op = "prepare"
       THEN /\ pc' = "returned"
            /\ saveErr' = "prepare"
            /\ txn' = OnError(variant, txn, store)
       ELSE /\ pc' = "exec"
            /\ saveErr' = saveErr
            /\ txn' = txn
    /\ UNCHANGED <<variant, chain, startCursor, cursor, ctxDone, attempt, err, followers,
                   newCursor, store, requests, waits, lastFail, fetchCalls, saveLog,
                   trail, prevStore, lastFault, cancelAt, report, run, labels, labelStr,
                   url, resp, jsonData>>

\* one turn of the loop: _, err := stmt.Exec(...); if err != nil { [tx.Rollback();]
\* return ... }
TxExec ==
    /\ pc = "exec"
    /\ txn.i <= Len(followers)
    /\ IF lastFault.op = "exec" /\ lastFault.k = txn.i
       THEN /\ pc' = "returned"
            /\ saveErr' = "exec"
            /\ txn' = OnError(variant, txn, store)
       ELSE /\ pc' = "exec"
            /\ saveErr' = saveErr
            /\ txn' = [txn EXCEPT !.table = Upsert(txn.table, followers[txn.i]),
                                  !.i = txn.i + 1]
    /\ UNCHANGED <<variant, chain, startCursor, cursor, ctxDone, attempt, err, followers,
                   newCursor, store, requests, waits, lastFail, fetchCalls, saveLog,
                   trail, prevStore, lastFault, cancelAt, report, run, labels, labelStr,
                   url, resp, jsonData>>

\* if err := tx.Commit(); err != nil { return ... }; return nil. Commit ends the
\* transaction whether it succeeds or not
TxCommit ==
    /\ pc = "exec"
    /\ txn.i > Len(followers)
    /\ pc' = "returned"
    /\ txn' = [txn EXCEPT !.open = FALSE, !.ended = "Commit"]
    /\ IF lastFault.op = "commit"
       THEN /\ saveErr' = "commit"
            /\ store' = store
       ELSE /\ saveErr' = "nil"
            /\ store' = Commit(store, txn.table)
    /\ UNCHANGED <<variant, chain, startCursor, cursor, ctxDone, attempt, err, followers,
                   newCursor, requests, waits, lastFail, fetchCalls, saveLog, trail,
                   prevStore, lastFault, cancelAt, report, run, labels, labelStr, url,
                   resp, jsonData>>

TxNext == TxBegin \/ TxPrepare \/ TxExec \/ TxCommit

TxSpec == TxInit /\ [][TxNext]_vars

-----------------------------------------------------------------------------
(* The upstream API: a chain of pages, one per continuation token *)

\* a token http.NewRequestWithContext rejects (a control character in the URL)
CtlToken == "\t"

Tokens == {"", "a", "b", CtlToken}

Page(fs, c) == [followers |-> fs, cursor |-> c]

NoPage == Page(<<>>, "")

\* three pages, tokens "a" -> "b" -> "": d1 comes back changed on the second page
ChainABC ==
    [t \in Tokens |->
        CASE t = ""  -> Page(<<F("d1", "h1", "n1")>>, "a")
          [] t = "a" -> Page(<<F("d2", "h1", "n1"), F("d1", "h2", "n1")>>, "b")
          [] t = "b" -> Page(<<F("d2", "h1", "n2")>>, "")
          [] OTHER   -> NoPage]

\* two pages: d1 with cursor "a", then d2 with no cursor
ChainTwo ==
    [t \in Tokens |->
        CASE t = ""  -> Page(<<F("d1", "h1", "n1")>>, "a")
          [] t = "a" -> Page(<<F("d2", "h2", "n2")>>, "")
          [] OTHER   -> NoPage]

\* an empty page with a cursor, then one id twice in a page
ChainGap ==
    [t \in Tokens |->
        CASE t = ""  -> Page(<<>>, "b")
          [] t = "b" -> Page(<<F("d1", "h1", "n1"), F("d1", "h2", "n2")>>, "")
          [] OTHER   -> NoPage]

\* the upstream repeats a token: "a" is followed by "a"
ChainLoop ==
    [t \in Tokens |->
        CASE t = ""  -> Page(<<F("d1", "h1", "n1")>>, "a")
          [] t = "a" -> Page(<<F("d2", "h1", "n1")>>, "a")
          [] OTHER   -> NoPage]

\* the first page's cursor cannot be put in a URL
ChainCtl ==
    [t \in Tokens |->
        CASE t = ""  -> Page(<<F("d2", "h1", "n1")>>, CtlToken)
          [] OTHER   -> NoPage]

Chains == {ChainABC, ChainTwo, ChainGap, ChainLoop, ChainCtl}

\* the tokens of the pages from token t to the page with the empty cursor, in
\* order; n bounds the walk (a chain that repeats a token never ends)
RECURSIVE Walk(_, _, _)
Walk(ch, t, n) ==
    IF n = 0 THEN <<>>
    ELSE IF ch[t].cursor = "" THEN <<t>>
    ELSE <<t>> \o Walk(ch, ch[t].cursor, n - 1)

\* the chain from t ends: it reaches the empty cursor without repeating a token
\* and without a token that cannot be requested
Finite(ch, t) ==
    LET w == Walk(ch, t, Cardinality(Tokens))
    IN  /\ ch[w[Len(w)]].cursor = ""
        /\ \A i \in 1..Len(w) : w[i] # CtlToken

-----------------------------------------------------------------------------
(* The programs *)

Variants == {"clean_start", "resume_start", "legacy_resume"}

\* the program has the cancellable context and the signal goroutine
HasCtx(v) == v \in {"clean_start", "resume_start"}

Terminal == {"done", "failed", "cancelled"}

\* the driver states of the design
Status ==
    CASE pc = "done" -> "DONE"
      [] pc = "failed" -> "FAILED"
      [] pc = "cancelled" -> "CANCELLED"
      [] OTHER -> "RUNNING"

\* the outcomes of one attempt, in the order fetchFollowers checks them
Failures == {"transport", "status", "read", "html", "decode"}

Init ==
    /\ variant \in Variants
    /\ chain \in Chains
    /\ startCursor \in (IF variant = "clean_start" THEN {""} ELSE Tokens \ {CtlToken})
    /\ pc = "loop"
    /\ cursor = startCursor
    /\ ctxDone = FALSE
    /\ attempt = 1
    /\ err = "nil"
    /\ followers = <<>>
    /\ newCursor = ""
    /\ store \in {<<>>, <<F("d1", "h2", "n2")>>}
    /\ requests = 0
    /\ waits = <<>>
    /\ lastFail = "none"
    /\ fetchCalls = 0
    /\ saveLog = <<>>
    /\ trail = <<startCursor>>
    /\ prevStore = store
    /\ saveErr = "nil"
    /\ lastFault = [op |-> "none", k |-> 0]
    /\ cancelAt = NotCancelled
    /\ report = NoReport
    /\ run = FirstRun(variant, startCursor, store)
    /\ labels = <<>>
    /\ labelStr = ""
    /\ url = ""
    /\ resp = NoResponse
    /\ txn = NoTx
    /\ jsonData = NoBody

\* Cancel with a fault: a second signal clears the flag
CancelToggle ==
    /\ HasCtx(variant)
    /\ pc \notin Terminal
    /\ ctxDone' = ~ctxDone
    /\ cancelAt' = [pc |-> pc, attempt |-> attempt, call |-> fetchCalls]
    /\ UNCHANGED <<variant, chain, startCursor, pc, cursor, attempt, err, followers,
                   newCursor, store, requests, waits, lastFail, fetchCalls, saveLog,
                   trail, prevStore, saveErr, lastFault, report, run, labels, labelStr,
                   url, resp, txn, jsonData>>

\* the signal goroutine: <-sigChan; cancel()
Cancel ==
    /\ HasCtx(variant)
    /\ pc \notin Terminal
    /\ ~ctxDone
    /\ ctxDone' = TRUE
    /\ cancelAt' = [pc |-> pc, attempt |-> attempt, call |-> fetchCalls]
    /\ UNCHANGED <<variant, chain, startCursor, pc, cursor, attempt, err, followers,
                   newCursor, store, requests, waits, lastFail, fetchCalls, saveLog,
                   trail, prevStore, saveErr, lastFault, report, run, labels, labelStr, url, resp, txn, jsonData>>

\* CtxErr with a fault: the cancellation is never seen
CtxErrNever(v, done) == FALSE

\* ctx.Err() != nil, and case <-ctx.Done(): only the programs with a context have it
CtxErr(v, done) == HasCtx(v) /\ done

\* logger.Info("Context cancelled, stopping fetch", {"last_cursor": cursor})
StopReport(c) == [msg |-> "Context cancelled, stopping fetch", cursors |-> {c}]

\* logger.Info("Context cancelled during fetch", nil)
FetchStopReport == [msg |-> "Context cancelled during fetch", cursors |-> {}]

\* err.Error() of what fetchFollowers returned, as far as cursors go: "exceeded max
\* retries for cursor %s" names the cursor, the error of http.NewRequestWithContext
\* quotes the URL with the cursor in it, ctx.Err() names nothing
ErrCursors(e, c) == IF e \in {"exhausted", "request"} THEN {c} ELSE {}

\* main, if err != nil after fetchFollowers: what is logged about stopping. The
\* resuming programs log that they retry, which is no stop
FetchErrorReport(v, done, e, c, r) ==
    IF CtxErr(v, done) THEN FetchStopReport
    ELSE IF v = "clean_start"
    THEN [msg |-> "Error fetching followers", cursors |-> ErrCursors(e, c)]
    ELSE r

\* main, if saveFollowers failed: logger.Error("Error saving followers",
\* {"error": err.Error()}) and os.Exit(1); the resuming programs go on
SaveErrorReport(v, r) ==
    IF v = "clean_start" THEN [msg |-> "Error saving followers", cursors |-> {}] ELSE r

\* logger.Info("All followers processed", nil)
DoneReport == [msg |-> "All followers processed", cursors |-> {}]

\* const baseURL
baseURL ==
    "https://public.api.bsky.app/xrpc/app.bsky.graph.getFollowers?actor=did%3Aplc%3Az72i7hdynmk6r22z27h6tvur&limit=30"

\* URL with a fault: the parameter is appended for every cursor
URLAlways(c) == baseURL \o "&cursor=" \o c

\* fetchFollowers: url := baseURL; if cursor != "" { url += "&cursor=" + cursor }
URL(c) == IF c # "" THEN baseURL \o "&cursor=" \o c ELSE baseURL

\* main, top of the loop: select on ctx.Done(), then the call of fetchFollowers
DriverLoop ==
    /\ pc = "loop"
    /\ IF CtxErr(variant, ctxDone)
       THEN /\ pc' = "cancelled"
            /\ report' = StopReport(cursor)
            /\ url' = url
            /\ UNCHANGED <<attempt, requests, waits, fetchCalls, err, followers, newCursor,
                           resp>>
       ELSE /\ fetchCalls < MaxFetchCalls
            /\ report' = report
            /\ url' = URL(cursor)
            /\ pc' = "attempt"
            /\ attempt' = 1
            /\ requests' = 0
            /\ waits' = <<>>
            /\ fetchCalls' = fetchCalls + 1
            /\ err' = "nil"
            /\ followers' = <<>>
            /\ newCursor' = ""
            /\ resp' = NoResponse
    /\ UNCHANGED <<variant, chain, startCursor, cursor, ctxDone, store, lastFail, saveLog,
                   trail, prevStore, saveErr, lastFault, cancelAt, run, labels, labelStr, txn, jsonData>>

\* fetchFollowers returns (fs, c, e) to main
Return(fs, c, e) ==
    /\ pc' = "ret"
    /\ followers' = fs
    /\ newCursor' = c
    /\ err' = e

\* MoreAttempts with a fault: one attempt too many
MoreAttemptsOffByOne(a) == a <= maxRetries + 1

\* for attempt := 1; attempt <= maxRetries; attempt++
MoreAttempts(a) == a <= maxRetries

\* the URL with the cursor appended is one the http package refuses to build
BadURL(c) == c = CtlToken

\* fetchFollowers, top of the retry loop, up to the request being sent
FetchLoopTop ==
    /\ pc = "attempt"
    /\ IF ~MoreAttempts(attempt)
       THEN Return(<<>>, "", "exhausted") /\ UNCHANGED requests
       ELSE IF CtxErr(variant, ctxDone)
       THEN Return(<<>>, "", "ctx") /\ UNCHANGED requests
       ELSE IF HasCtx(variant) /\ BadURL(cursor)
       THEN Return(<<>>, "", "request") /\ UNCHANGED requests
       ELSE /\ pc' = "request"
            /\ requests' = requests + 1
            /\ UNCHANGED <<followers, newCursor, err>>
    /\ UNCHANGED <<variant, chain, startCursor, cursor, ctxDone, attempt, store, waits,
                   lastFail, fetchCalls, saveLog, trail, prevStore, saveErr, lastFault,
                   cancelAt, report, run, labels, labelStr, url, resp, txn, jsonData>>

\* Backoff with a fault: the documented exponential backoff
BackoffExponential(a) == 2 ^ (a - 1)

\* time.Sleep(time.Duration(attempt) * time.Second), in seconds
Backoff(a) == a

\* a response: the error of http.DefaultClient.Do ("nil", "net" for a failure of
\* the network, "ctx" for the cancelled context of the request), the status code,
\* the error of io.ReadAll, the kind of the body, and the page a JSON body holds
Resp(d, s, rd, b, p) == [do |-> d, status |-> s, read |-> rd, body |-> b, page |-> p]

\* a body of records that comes with an error status; its record is on no page of
\* the upstream
ErrorPage == Page(<<F("d1", "h1", "n2")>>, "b")

\* what can come back for the request of cursor c: no response at all, an error
\* status with an HTML or a JSON body, a body that cannot be read, an HTML page,
\* bytes that are not JSON, or the page of c
Responses(v, done, ch, c) ==
    {Resp("net", 0, "nil", "none", NoPage)}
        \cup (IF CtxErr(v, done) THEN {Resp("ctx", 0, "nil", "none", NoPage)} ELSE {})
        \cup (IF BadURL(c) THEN {}
              ELSE {Resp("nil", 500, "nil", "html", NoPage),
                    Resp("nil", 500, "nil", "json", ErrorPage),
                    Resp("nil", 200, "err", "none", NoPage),
                    Resp("nil", 200, "nil", "html", NoPage),
                    Resp("nil", 200, "nil", "garbage", NoPage),
                    Resp("nil", 200, "nil", "json", ch[c])})

\* strings.HasPrefix(http.DetectContentType(body), "text/html")
IsHTML(body) == body = "html"

\* json.Unmarshal(body, &apiResp) returns nil
Unmarshals(body) == body = "json"

\* Classify with a fault: the status code is not looked at
ClassifyNoStatus(r) ==
    IF r.do # "nil" THEN "transport"
    ELSE IF r.read # "nil" THEN "read"
    ELSE IF IsHTML(r.body) THEN "html"
    ELSE IF ~Unmarshals(r.body) THEN "decode"
    ELSE "ok"

\* fetchFollowers, the checks of one attempt in the order of the code: the branch
\* that sleeps and continues, or "ok" when the return is reached
Classify(r) ==
    IF r.do # "nil" THEN "transport"
    ELSE IF r.status # 200 THEN "status"
    ELSE IF r.read # "nil" THEN "read"
    ELSE IF IsHTML(r.body) THEN "html"
    ELSE IF ~Unmarshals(r.body) THEN "decode"
    ELSE "ok"

\* the request comes back: one of the failure branches, or the return of the page
Response ==
    /\ pc = "request"
    /\ \E r \in Responses(variant, ctxDone, chain, cursor) :
          /\ resp' = r
          /\ IF Classify(r) # "ok"
             THEN /\ pc' = "backoff"
                  /\ lastFail' = Classify(r)
                  /\ waits' = Append(waits, Backoff(attempt))
                  /\ UNCHANGED <<followers, newCursor, err>>
             ELSE /\ Return(r.page.followers, r.page.cursor, "nil")
                  /\ UNCHANGED <<lastFail, waits>>
    /\ UNCHANGED <<variant, chain, startCursor, cursor, ctxDone, attempt, store, requests,
                   fetchCalls, saveLog, trail, prevStore, saveErr, lastFault, cancelAt,
                   report, run, labels, labelStr, url, txn, jsonData>>

\* Wake with a fault: the response of the failed attempt is kept for the next one
WakeKeepsResponse ==
    /\ pc = "backoff"
    /\ pc' = "attempt"
    /\ attempt' = attempt + 1
    /\ lastFail' = "none"
    /\ UNCHANGED <<variant, chain, startCursor, cursor, ctxDone, err, followers,
                   newCursor, store, requests, waits, fetchCalls, saveLog, trail,
                   prevStore, saveErr, lastFault, cancelAt, report, run, labels, labelStr,
                   url, resp, txn, jsonData>>

\* the sleep after a failed attempt ends: continue, attempt++
Wake ==
    /\ pc = "backoff"
    /\ pc' = "attempt"
    /\ attempt' = attempt + 1
    /\ lastFail' = "none"
    /\ resp' = NoResponse
    /\ UNCHANGED <<variant, chain, startCursor, cursor, ctxDone, err, followers,
                   newCursor, store, requests, waits, fetchCalls, saveLog, trail,
                   prevStore, saveErr, lastFault, cancelAt, report, run, labels, labelStr, url, txn, jsonData>>

\* OnFetchError with a fault: the cause of the error is looked at first, and an
\* exhaustion of the retries is fatal whether or not the signal has fired
OnFetchErrorCauseFirst(v, done) ==
    IF err = "exhausted" /\ v = "clean_start" THEN "failed"
    ELSE IF CtxErr(v, done) THEN "cancelled"
    ELSE IF v = "clean_start" THEN "failed"
    ELSE "pause"

\* OnFetchError with a fault: the driver saves whatever fetchFollowers returned
OnFetchErrorSave(v, done) == "save"

\* OnFetchError with a fault: every program sleeps and calls fetchFollowers again
OnFetchErrorRetry(v, done) == IF CtxErr(v, done) THEN "cancelled" ELSE "pause"

\* OnFetchError with a fault: every program treats a fetch error as fatal
OnFetchErrorFatal(v, done) ==
    IF CtxErr(v, done) THEN "cancelled" ELSE "failed"

\* main, if err != nil after fetchFollowers: where the driver goes
OnFetchError(v, done) ==
    IF CtxErr(v, done) THEN "cancelled"
    ELSE IF v = "clean_start" THEN "failed"
    ELSE "pause"

\* main, after fetchFollowers returned
AfterFetch ==
    /\ pc = "ret"
    /\ pc' = IF err # "nil" THEN OnFetchError(variant, ctxDone) ELSE "save"
    /\ report' = IF err # "nil" THEN FetchErrorReport(variant, ctxDone, err, cursor, report)
                 ELSE report
    /\ UNCHANGED <<variant, chain, startCursor, cursor, ctxDone, attempt, err, followers,
                   newCursor, store, requests, waits, lastFail, fetchCalls, saveLog,
                   trail, prevStore, saveErr, lastFault, cancelAt, run, labels, labelStr, url, resp, txn, jsonData>>

\* Resume with a fault: the loop also goes on after the driver has stopped on a
\* cancellation
ResumeAfterStop ==
    /\ pc \in {"pause", "cancelled"}
    /\ pc' = "loop"
    /\ UNCHANGED <<variant, chain, startCursor, cursor, ctxDone, attempt, err, followers,
                   newCursor, store, requests, waits, lastFail, fetchCalls, saveLog,
                   trail, prevStore, saveErr, lastFault, cancelAt, report, run, labels, labelStr, url, resp, txn, jsonData>>

\* main, time.Sleep(2 * time.Second); continue (the resuming programs)
Resume ==
    /\ pc = "pause"
    /\ pc' = "loop"
    /\ UNCHANGED <<variant, chain, startCursor, cursor, ctxDone, attempt, err, followers,
                   newCursor, store, requests, waits, lastFail, fetchCalls, saveLog,
                   trail, prevStore, saveErr, lastFault, cancelAt, report, run, labels, labelStr, url, resp, txn, jsonData>>

\* OnSaveError with a fault: every program treats a save error as fatal
OnSaveErrorFatal(v) == "failed"

\* main, if err := saveFollowers(...); err != nil: where the driver goes
OnSaveError(v) == IF v = "clean_start" THEN "failed" ELSE "loop"

\* Advance with a fault: the cursor moves on although the batch was not saved
AdvanceAlways(e, c, n) == IF n = "" THEN c ELSE n

\* Advance with a fault: a failed save sends the cursor back to where the run
\* started
AdvanceReset(e, c, n) == IF e = "nil" THEN (IF n # "" THEN n ELSE c) ELSE ""

\* main, cursor = newCursor, reached only after a successful save with a cursor
Advance(e, c, n) == IF e = "nil" /\ n # "" THEN n ELSE c

\* IsLast with a fault: a page without records also ends the loop
IsLastOrEmpty(n) == n = "" \/ followers = <<>>

\* IsLast with a fault: the loop ends after the first page
IsLastAlways(n) == TRUE

\* main, if newCursor == "": break
IsLast(n) == n = ""

\* main, the call of saveFollowers and the end of the iteration
Save ==
    /\ pc = "save"
    /\ \E fault \in SaveFaults(variant, run.columns, followers) : CallSave(fault)
    /\ pc' = IF saveErr' # "nil" THEN OnSaveError(variant)
             ELSE IF IsLast(newCursor) THEN "done"
             ELSE "loop"
    /\ cursor' = Advance(saveErr', cursor, newCursor)
    /\ trail' = IF cursor' # cursor THEN Append(trail, cursor') ELSE trail
    /\ report' = IF saveErr' # "nil" THEN SaveErrorReport(variant, report)
                 ELSE IF IsLast(newCursor) THEN DoneReport
                 ELSE report
    /\ UNCHANGED <<variant, chain, startCursor, ctxDone, attempt, err, followers,
                   newCursor, requests, waits, lastFail, fetchCalls, cancelAt, run, labels, labelStr, url, resp, txn, jsonData>>

DriverNext == DriverLoop \/ FetchLoopTop \/ Response \/ Wake \/ AfterFetch \/ Resume \/ Save

Next == Cancel \/ DriverNext

Spec == Init /\ [][Next]_vars

\* the driver is one goroutine that keeps running: a request comes back, a sleep
\* ends, a database call returns
FairSpec == Spec /\ WF_vars(DriverNext)

-----------------------------------------------------------------------------
(* Properties of saveFollowers, checked under PersistSpec *)

Rows(t, d) == Cardinality(RowsOf(t, d))

\* C1: persist is idempotent. When saveFollowers(B) has succeeded and is called
\* again with the same B, then, whether or not the second call succeeds, the table
\* is what the first call left: the same rows with the same field values, the same
\* number of rows for every id, and never two rows for one id.
C1_PersistIdempotent ==
    (Len(saveLog) = 2 /\ saveLog[1].ok) =>
        /\ RowSet(store) = RowSet(prevStore)
        /\ \A d \in DIDs : Rows(store, d) = Rows(prevStore, d)
        /\ KeyUnique(store)
        /\ \A i \in 1..Len(followers) : Rows(store, followers[i].DID) = 1

\* the second of two successful calls with a batch that names one id twice with
\* different fields
C1_Witness ==
    /\ Len(saveLog) = 2 /\ saveLog[1].ok /\ saveLog[2].ok
    /\ \E i, j \in 1..Len(followers) :
          i < j /\ followers[i].DID = followers[j].DID /\ followers[i] # followers[j]

\* C2: atomic batch failure. When the write of one record of the batch fails, at
\* any position, saveFollowers returns an error and the table is exactly what it
\* was before the call.
C2_AtomicBatchFailure ==
    (Len(saveLog) > 0 /\ lastFault.op = "exec") =>
        /\ saveErr # "nil"
        /\ ~saveLog[Len(saveLog)].ok
        /\ store = prevStore

\* the third record of a batch of three fails after two records, new to the table,
\* were written inside the transaction
C2_Witness ==
    /\ Len(saveLog) = 1 /\ lastFault = [op |-> "exec", k |-> 3]
    /\ Len(followers) = 3
    /\ followers[1].DID # followers[2].DID
    /\ prevStore = <<>>
    /\ store = <<>>

-----------------------------------------------------------------------------
(* Properties of the driver and of fetchFollowers, checked under Spec *)

\* the page fetched with token t was committed by a successful saveFollowers
Committed(t) == \E j \in 1..Len(saveLog) : saveLog[j] = [token |-> t, ok |-> TRUE]

\* the tokens the cursor has left behind lead, page by page, from the start token
\* to the current cursor, and every one of their pages was committed
TrailCommitted ==
    /\ trail[1] = startCursor
    /\ trail[Len(trail)] = cursor
    /\ \A i \in 1..(Len(trail) - 1) :
          /\ chain[trail[i]].cursor = trail[i + 1]
          /\ Committed(trail[i])

\* a step that changes the cursor is the end of an iteration whose saveFollowers
\* committed the page fetched with the old cursor
AdvanceIsCommit ==
    cursor' # cursor =>
        /\ pc = "save"
        /\ saveErr' = "nil"
        /\ saveLog' = Append(saveLog, [token |-> cursor, ok |-> TRUE])
        /\ store' = SaveFollowers(store, followers, [op |-> "none", k |-> 0]).db
        /\ cursor' = newCursor
        /\ newCursor = chain[cursor].cursor

\* C3: the token advances only after a successful commit and no page is skipped.
\* In every state, every page between the start token and the current cursor was
\* committed by a successful saveFollowers of this run; and only the step that
\* commits a page changes the cursor, so a failed fetch, a failed save or a
\* cancellation never does.
C3_TokenAfterCommit == []TrailCommitted /\ [][AdvanceIsCommit]_vars

\* the cursor has advanced twice and then a save failed: the cursor stayed
C3_Witness ==
    /\ Len(trail) = 3
    /\ saveErr # "nil"
    /\ ~saveLog[Len(saveLog)].ok
    /\ saveLog[Len(saveLog)].token = cursor

\* C4: retry bound. One call of fetchFollowers never issues more than maxRetries
\* requests; and a call that returns with every one of its requests failed, while
\* the cancellation has not fired, returns the exceeded-max-retries error after
\* exactly maxRetries requests.
C4_RetryBound ==
    /\ requests <= maxRetries
    /\ (pc = "ret" /\ ~ctxDone /\ requests >= 1 /\ Len(waits) = requests) =>
          (err = "exhausted" /\ requests = maxRetries)
    /\ (pc = "ret" /\ err = "exhausted") =>
          (requests = maxRetries /\ Len(waits) = maxRetries)

\* fetchFollowers has returned the exceeded-max-retries error, not cancelled
C4_Witness ==
    /\ pc = "ret" /\ err = "exhausted" /\ ~ctxDone
    /\ requests = maxRetries

RECURSIVE Sum(_)
Sum(w) == IF w = <<>> THEN 0 ELSE w[1] + Sum(Tail(w))

Unhappy ==
    \/ ctxDone
    \/ pc = "ret" /\ err # "nil"
    \/ Len(saveLog) > 0 /\ ~saveLog[Len(saveLog)].ok

\* saveFollowers was called once per page of the chain from the start token, in
\* chain order, every call committed, and the driver is in DONE
DoneInChainOrder ==
    LET w == Walk(chain, startCursor, Cardinality(Tokens))
    IN  /\ Status = "DONE"
        /\ Len(saveLog) = Len(w)
        /\ \A i \in 1..Len(w) : saveLog[i] = [token |-> w[i], ok |-> TRUE]

\* C6: pagination termination. On a chain of n pages that ends without repeating
\* a token, a run in which no call of fetchFollowers and no call of saveFollowers
\* fails and the cancellation never fires reaches DONE, having called
\* saveFollowers exactly n times, once per page in chain order.
C6_PaginationTerminates ==
    <>(~Finite(chain, startCursor) \/ Unhappy \/ DoneInChainOrder)

\* the three pages "" -> "a" -> "b" -> "" saved in order, the driver in DONE
C6_Witness ==
    /\ DoneInChainOrder /\ ~ctxDone
    /\ startCursor = ""
    /\ Len(saveLog) = 3
    /\ saveLog[2].token = "a" /\ saveLog[3].token = "b"

\* the records of the pages from token t to the page with the empty cursor, in
\* the order they are served
RECURSIVE Records(_, _)
Records(ch, w) == IF w = <<>> THEN <<>> ELSE ch[w[1]].followers \o Records(ch, Tail(w))

\* the last record of recs with id d
LastOf(recs, d) ==
    recs[CHOOSE i \in 1..Len(recs) :
            /\ recs[i].DID = d
            /\ \A j \in (i + 1)..Len(recs) : recs[j].DID # d]

\* C7: end-to-end completeness. Whenever a run is in DONE, the table holds, for
\* every record of every page from the start token to the page with the empty
\* cursor, exactly one row with that id, carrying the field values of the id's
\* last occurrence on the chain.
C7_EndToEndComplete ==
    Status = "DONE" =>
        LET recs == Records(chain, Walk(chain, startCursor, Cardinality(Tokens)))
        IN  \A i \in 1..Len(recs) :
                /\ Rows(store, recs[i].DID) = 1
                /\ LastOf(recs, recs[i].DID) \in RowSet(store)

\* DONE on the three-page chain, on which d1 and d2 both come back changed, after
\* a save of a page had failed and the page was fetched again
C7_Witness ==
    /\ Status = "DONE"
    /\ chain = ChainABC /\ startCursor = ""
    /\ \E j \in 1..Len(saveLog) : ~saveLog[j].ok
    /\ RowSet(store) = {F("d1", "h2", "n1"), F("d2", "h1", "n2")}

\* the driver inspects an exceeded-max-retries error while the cancellation has
\* not fired
InspectsExhausted == pc = "ret" /\ pc' # pc /\ err = "exhausted" /\ ~ctxDone

\* FAILED is the end of the run: no fetch and no save follows
FailedStops ==
    pc = "failed" => (pc' = "failed" /\ fetchCalls' = fetchCalls /\ saveLog' = saveLog)

SaveFails == pc = "save" /\ pc' # pc /\ saveErr' # "nil"

CancelledInBackoff == cancelAt.pc = "backoff"

-----------------------------------------------------------------------------
(* Cancellation seen by a failed attempt *)

\* an attempt of fetchFollowers is classified as a failure while the context is
\* already cancelled (the request in flight was aborted by the signal)
FailedWhileCancelled ==
    /\ pc = "request"
    /\ CtxErr(variant, ctxDone)
    /\ pc' \in {"backoff", "ret"}
    /\ ~(pc' = "ret" /\ err' = "nil")

\* C11 as stated: when the cancellation has already fired at the moment an attempt
\* is classified as a failure, fetchFollowers returns the cancellation error at
\* once and does not sleep the backoff of that attempt.
C11_AsStated ==
    [][FailedWhileCancelled => (pc' = "ret" /\ err' = "ctx" /\ waits' = waits)]_vars

-----------------------------------------------------------------------------
(* Cancellation and the save of a fetched page *)

\* the driver calls saveFollowers
SaveStarts == Len(saveLog') = Len(saveLog) + 1

\* C12 as stated: the cancellation is looked at before each call of saveFollowers.
\* When it has fired before the driver begins to save a fetched page,
\* saveFollowers is not called for that page and the driver stops in CANCELLED.
C12_AsStated ==
    [][(pc = "save" /\ CtxErr(variant, ctxDone)) =>
          (pc' = "cancelled" /\ ~SaveStarts /\ store' = store)]_vars


\* C12, amended: the cancellation is not looked at between the return of
\* fetchFollowers and the call of saveFollowers. When it has fired before the
\* driver begins to save a fetched page, the driver still calls saveFollowers for
\* that page and goes on exactly as without the cancellation: after a successful
\* save the cursor advances and the driver ends in DONE when the page was the
\* last one, and otherwise returns to the top of the loop, where the cancellation
\* is seen; after a failed save clean_start goes to FAILED and the resuming
\* programs return to the top of the loop with the cursor unchanged.
C12_SaveNotGuarded ==
    [][(pc = "save" /\ CtxErr(variant, ctxDone)) =>
          /\ SaveStarts
          /\ pc' # "cancelled"
          /\ saveErr' = "nil" =>
                /\ cursor' = (IF newCursor = "" THEN cursor ELSE newCursor)
                /\ pc' = (IF newCursor = "" THEN "done" ELSE "loop")
          /\ saveErr' # "nil" =>
                /\ cursor' = cursor
                /\ store' = store
                /\ pc' = (IF variant = "clean_start" THEN "failed" ELSE "loop")]_vars

\* the signal fired after fetchFollowers had returned the last page and before
\* saveFollowers was called: the page was saved and the driver ended in DONE
C12_Witness ==
    /\ cancelAt.pc = "save"
    /\ pc = "done"
    /\ saveLog # <<>> /\ saveLog[Len(saveLog)].ok
    /\ followers # <<>>

-----------------------------------------------------------------------------
(* What the driver reports when it stops *)

\* the cursor of the last page whose save was committed, or the start cursor
LastCommitted == trail[Len(trail)]

\* C13 as stated: whenever the driver has stopped in CANCELLED, at the check at the
\* top of the loop or after fetchFollowers returned with the signal fired, the
\* message it stopped with carries its current cursor, which is the cursor of the
\* last committed page, or the start cursor when no page was committed.
C13_AsStated ==
    Status = "CANCELLED" => (report.cursors = {cursor} /\ cursor = LastCommitted)


\* C14 as stated: whenever a run has ended on a fatal error, the retries of a fetch
\* exhausted or a save failed, the message it ended with carries the driver's
\* current cursor, the last one it advanced to.
C14_AsStated ==
    Status = "FAILED" => (cursor \in report.cursors /\ cursor = LastCommitted)

-----------------------------------------------------------------------------
(* A stopped run, resumed: resume_start is started with -cursor set to the    *)
(* cursor the first run stopped with                                           *)

\* the directories resume_start can be started in after a run of program v: the
\* directory of that run (TRUE: the same followers.db, with the table as v created
\* it) or, after clean_start and as the README has it, resume_start/ (FALSE: its
\* own followers.db, created empty)
SameDir(v) == IF v = "clean_start" THEN BOOLEAN ELSE {TRUE}

\* the second process: go run main.go -cursor c
Restart ==
    /\ run.n = 1
    /\ pc \in {"cancelled", "failed"}
    /\ \E sameDir \in SameDir(variant) :
          /\ store' = (IF sameDir THEN store ELSE <<>>)
          /\ run' = [run EXCEPT !.n = 2,
                                !.columns = IF sameDir THEN @ ELSE Columns("resume_start")]
    /\ variant' = "resume_start"
    /\ startCursor' = cursor
    /\ pc' = "loop"
    /\ ctxDone' = FALSE
    /\ attempt' = 1
    /\ err' = "nil"
    /\ followers' = <<>>
    /\ newCursor' = ""
    /\ requests' = 0
    /\ waits' = <<>>
    /\ lastFail' = "none"
    /\ fetchCalls' = 0
    /\ saveLog' = <<>>
    /\ trail' = <<cursor>>
    /\ prevStore' = store'
    /\ saveErr' = "nil"
    /\ lastFault' = [op |-> "none", k |-> 0]
    /\ cancelAt' = NotCancelled
    /\ report' = NoReport
    /\ url' = ""
    /\ resp' = NoResponse
    /\ UNCHANGED <<chain, cursor, labels, labelStr, txn, jsonData>>

\* a step of the first run
FirstRunStep == run.n = 1 /\ Next

\* a step of the second run in which nothing fails from outside: no signal, every
\* request comes back with the page, the database fails no call
SecondRunStep ==
    /\ run.n = 2
    /\ DriverNext
    /\ pc' # "backoff"
    /\ pc' = "ret" => err' = "nil"
    /\ (pc = "save" /\ Prepares(variant, run.columns)) => saveErr' = "nil"

ResumeNext == FirstRunStep \/ Restart \/ SecondRunStep

ResumeSpec == Init /\ [][ResumeNext]_vars

RECURSIVE SaveAll(_, _)
\* the table after the records recs were written to table t in order
SaveAll(t, recs) ==
    IF recs = <<>> THEN t ELSE SaveAll(Upsert(t, recs[1]), Tail(recs))

\* the table one uninterrupted run from cursor s on table t ends with
Uninterrupted(ch, s, t) == SaveAll(t, Records(ch, Walk(ch, s, Cardinality(Tokens))))

\* C15 as stated: resumability. When a run from cursor s has stopped in CANCELLED
\* or FAILED and a second run is started with the cursor the first one stopped
\* with, on the same chain and with nothing failing any more, then the second run,
\* once in DONE, has the table that one uninterrupted run from s ends with.
C15_AsStated ==
    (run.n = 2 /\ Status = "DONE") =>
        RowSet(store) = RowSet(Uninterrupted(chain, run.from, run.store0))

-----------------------------------------------------------------------------
(* Upsert, checked under PersistSpec *)

\* the last call of saveFollowers committed
LastSaveOk == saveLog # <<>> /\ saveLog[Len(saveLog)].ok

\* the ids of the records of a batch
IdsOf(batch) == {batch[i].DID : i \in 1..Len(batch)}

\* C16: upsert overwrite. After a call of saveFollowers that committed, every id of
\* the batch has exactly one row, and that row carries in every field the values
\* of the id's last record in the batch, whatever the row held before; the rows
\* of the other ids are as they were; and after any number of calls no id has more
\* than one row.
C16_UpsertOverwrite ==
    /\ KeyUnique(store)
    /\ LastSaveOk =>
          /\ \A d \in IdsOf(followers) :
                /\ Rows(store, d) = 1
                /\ \A i \in RowsOf(store, d) : store[i] = LastOf(followers, d)
          /\ \A d \in DIDs \ IdsOf(followers) :
                {store[i] : i \in RowsOf(store, d)} =
                    {prevStore[i] : i \in RowsOf(prevStore, d)}

\* a committed call on a table that held a row for d1 of which the batch changes
\* only the handle, and a row for d2 of which it changes both fields
C16_Witness ==
    /\ Len(saveLog) = 1 /\ LastSaveOk
    /\ IdsOf(followers) = DIDs
    /\ \E i, j \in 1..Len(prevStore) :
          /\ prevStore[i].DID = "d1" /\ prevStore[j].DID = "d2"
          /\ LastOf(followers, "d1").Handle # prevStore[i].Handle
          /\ LastOf(followers, "d1").DisplayName = prevStore[i].DisplayName
          /\ LastOf(followers, "d2").Handle # prevStore[j].Handle
          /\ LastOf(followers, "d2").DisplayName # prevStore[j].DisplayName

-----------------------------------------------------------------------------
(* One page at a time *)

\* the driver calls fetchFollowers
FetchStarts == fetchCalls' = fetchCalls + 1

\* fetchFollowers is running: between its call and its return
InFetch == pc \in {"attempt", "request", "backoff"}

\* the page before the current cursor was committed by a call of saveFollowers
PreviousCommitted ==
    Len(trail) > 1 =>
        \E j \in 1..Len(saveLog) :
            saveLog[j] = [token |-> trail[Len(trail) - 1], ok |-> TRUE]

\* C17: the driver runs one page at a time. saveFollowers is called only when no
\* fetch is running and the fetch of the page of the current cursor has returned
\* that page without error; fetchFollowers is called only from the top of the
\* loop, when no fetch is running and no page waits to be saved, and for a cursor
\* the driver advanced to only after the save of the page before it had
\* committed; no step both starts a fetch and calls saveFollowers.
C17_OnePageAtATime ==
    [][/\ SaveStarts =>
             /\ ~InFetch /\ pc = "save"
             /\ err = "nil" /\ requests >= 1
             /\ followers = chain[cursor].followers
             /\ newCursor = chain[cursor].cursor
             /\ ~FetchStarts
       /\ FetchStarts =>
             /\ ~InFetch /\ pc = "loop"
             /\ cursor = LastCommitted
             /\ PreviousCommitted
             /\ pc' = "attempt" /\ cursor' = cursor /\ store' = store]_vars

\* the fetch of the second page is running, after the first page was fetched
\* twice: its save failed the first time and committed the second time
C17_Witness ==
    /\ InFetch /\ fetchCalls = 3
    /\ Len(saveLog) = 2 /\ ~saveLog[1].ok /\ saveLog[2].ok
    /\ saveLog[1].token = startCursor /\ saveLog[2].token = startCursor
    /\ cursor # startCursor

-----------------------------------------------------------------------------
(* How long the driver goes on after the signal *)

\* a wait begins: the sleep after a failed attempt, or the sleep of the resuming
\* programs before they call fetchFollowers again
WaitBegins == pc' \in {"backoff", "pause"} /\ pc' # pc

\* how many steps the driver is from a stop at most, once the signal has fired
StepsToStop(p) ==
    CASE p = "request" -> 6
      [] p = "backoff" -> 5
      [] p = "attempt" -> 4
      [] p = "ret" -> 3
      [] p \in {"save", "pause"} -> 2
      [] p = "loop" -> 1
      [] OTHER -> 0

\* C18: cancellation latency. Once the signal has fired the driver sends no
\* further request and makes no further call of fetchFollowers; the only wait
\* that can still begin is the backoff of the attempt that was in flight when the
\* signal fired, so that at most one sleep ends after the signal; and the driver
\* stops: it is never blocked, and every step it takes brings it nearer to a
\* stop, the request in flight, one sleep and one save at most lying in between.
C18_CancellationLatency ==
    /\ [](ctxDone =>
            /\ fetchCalls = cancelAt.call
            /\ attempt \in {cancelAt.attempt, cancelAt.attempt + 1}
            /\ attempt = cancelAt.attempt + 1 => cancelAt.pc \in {"request", "backoff"}
            /\ pc \notin Terminal => ENABLED DriverNext)
    /\ [][ctxDone =>
            /\ requests' = requests
            /\ ~FetchStarts
            /\ StepsToStop(pc') < StepsToStop(pc)
            /\ WaitBegins =>
                  /\ pc' = "backoff"
                  /\ cancelAt.pc = "request"
                  /\ attempt = cancelAt.attempt]_vars

\* the signal fired while the request of the second attempt was in flight; the
\* attempt failed, its backoff was slept, and the driver stopped in CANCELLED
\* without a third request
C18_Witness ==
    /\ cancelAt.pc = "request" /\ cancelAt.attempt = 2
    /\ Status = "CANCELLED"
    /\ attempt = 3 /\ requests = 2 /\ waits = <<1, 2>>

-----------------------------------------------------------------------------
(* The end of a run *)

\* C19: DONE, FAILED and CANCELLED are terminal. From a state in which the driver
\* is in one of them no step of the program calls fetchFollowers, sends a request,
\* calls saveFollowers, changes the table or the cursor, or leaves the state.
C19_TerminalStates ==
    [][Status # "RUNNING" =>
          /\ pc' = pc
          /\ cursor' = cursor
          /\ store' = store
          /\ ~FetchStarts /\ requests' = requests
          /\ ~SaveStarts]_vars

\* the driver stopped in CANCELLED on a page that has a successor: the signal
\* fired when the page was fetched, the page was saved, the cursor advanced, and
\* the next page is not fetched
C19_Witness ==
    /\ Status = "CANCELLED"
    /\ cancelAt.pc = "save"
    /\ cursor # startCursor /\ cursor = newCursor
    /\ chain[cursor].followers # <<>>

-----------------------------------------------------------------------------
(* The errors fetchFollowers returns *)

\* fetchFollowers has returned an error to the driver and the signal has not
\* fired
ReturnedError == pc = "ret" /\ err # "nil" /\ ~ctxDone

\* C20 as stated: every failure of an attempt is handled by the backoff loop
\* inside fetchFollowers, so every error fetchFollowers returns to the driver
\* while the cancellation has not fired is the exceeded-max-retries error,
\* returned only after maxRetries requests.
C20_AsStated ==
    ReturnedError => (err = "exhausted" /\ requests = maxRetries)


\* C20, amended: the failures of an attempt (transport, status, body read, content
\* type, decode) never leave fetchFollowers as they are: each is followed by the
\* backoff and the next attempt. An error fetchFollowers returns while the
\* cancellation has not fired is either the exceeded-max-retries error, returned
\* after exactly maxRetries requests each of which failed and was backed off, or
\* the error of http.NewRequestWithContext for a cursor the URL cannot carry,
\* returned at once, before any request and without any backoff, by the programs
\* that build the request with a context.
C20_FetchErrors ==
    /\ ReturnedError =>
          \/ /\ err = "exhausted"
             /\ requests = maxRetries
             /\ Len(waits) = maxRetries
          \/ /\ err = "request"
             /\ HasCtx(variant) /\ BadURL(cursor)
             /\ requests = 0
             /\ waits = <<>>
    /\ lastFail \in Failures => (pc = "backoff" /\ err = "nil")

\* the first page carried a cursor with a control character: the second call of
\* fetchFollowers returned the error of the request's construction without
\* sending anything
C20_Witness ==
    /\ ReturnedError
    /\ err = "request" /\ requests = 0
    /\ fetchCalls = 2 /\ cursor # startCursor

-----------------------------------------------------------------------------
(* The labels column, checked under LabelSpec *)

RECURSIVE ExpectedLabels(_)
\* the string TestLabelsConversion expects, for any list: the pair of the last
\* label, after the string of the labels before it and a comma when there are any
ExpectedLabels(ls) ==
    IF ls = <<>> THEN ""
    ELSE LET n == Len(ls)
             pair == ls[n].Type \o ":" \o ls[n].Value
         IN  IF n = 1 THEN pair
             ELSE ExpectedLabels(SubSeq(ls, 1, n - 1)) \o "," \o pair

\* C21: label serialization. For every list of labels the string saveFollowers
\* writes to the column labels is the type:value pairs of the list, in list order,
\* joined by ","; the labels (type1, value1), (type2, value2) give
\* "type1:value1,type2:value2"; the empty list, which is also what an absent list
\* is, gives the empty string.
C21_LabelSerialization ==
    pc = "exec" =>
        /\ labelStr = ExpectedLabels(labels)
        /\ labels = <<>> => labelStr = ""
        /\ labels = <<[Type |-> "type1", Value |-> "value1"],
                      [Type |-> "type2", Value |-> "value2"]>> =>
              labelStr = "type1:value1,type2:value2"

\* the list of TestLabelsConversion has been converted
C21_Witness ==
    /\ pc = "exec"
    /\ labels = <<[Type |-> "type1", Value |-> "value1"],
                  [Type |-> "type2", Value |-> "value2"]>>
    /\ labelStr = "type1:value1,type2:value2"

-----------------------------------------------------------------------------
(* The store over a run, checked under Spec *)

\* C22: records are never deleted. In every step of a run, whether of the fetch,
\* of saveFollowers, of a failure or of the cancellation, every id that has a row
\* in the store before the step has one after it; and the store is different after
\* a step only when the step is a call of saveFollowers that committed.
C22_NeverDeleted ==
    [][/\ IdsOf(store) \subseteq IdsOf(store')
       /\ store' # store => (pc = "save" /\ SaveStarts /\ saveErr' = "nil")]_vars

\* a batch with a new id has been committed to a store that had a row, after a
\* call of saveFollowers that failed
C22_Witness ==
    /\ LastSaveOk
    /\ Len(saveLog) >= 2 /\ ~saveLog[1].ok
    /\ prevStore # <<>>
    /\ IdsOf(prevStore) # IdsOf(store)
    /\ IdsOf(prevStore) \subseteq IdsOf(store)

-----------------------------------------------------------------------------
(* What a failed call of fetchFollowers hands back, checked under Spec *)

\* C23: a failed fetch returns no page and leaves the cursor of main as it was.
\* Whenever fetchFollowers has returned an error (the retries exceeded, the
\* context cancelled, the request not built), the followers it returned are none,
\* the cursor it returned is empty, and the cursor of main is still the one the
\* call was made with, that is the one its URL was built from, from the return on
\* until main calls fetchFollowers again or stops.
C23_FailedFetch ==
    err # "nil" =>
        /\ pc \in {"ret", "pause", "loop", "failed", "cancelled"}
        /\ followers = <<>>
        /\ newCursor = ""
        /\ url = URL(cursor)
        /\ cursor = LastCommitted

\* a call for a page after the first has failed and main has gone on from the
\* error
C23_Witness ==
    /\ err = "exhausted"
    /\ pc = "pause"
    /\ cursor # startCursor
    /\ cursor # ""

-----------------------------------------------------------------------------
(* The delays of one call of fetchFollowers, checked under Spec *)

\* C24 as stated: the retries use exponential backoff. Within one call of
\* fetchFollowers the delay slept after failed attempt k+1 is at least twice the
\* delay slept after failed attempt k, for every k from 1 to maxRetries - 1.
C24_AsStated ==
    \A k \in 1..(maxRetries - 1) :
        k + 1 <= Len(waits) => waits[k + 1] >= 2 * waits[k]

-----------------------------------------------------------------------------
(* The interrupt signal and the operation in progress, checked under Spec *)

\* C25 as stated: graceful shutdown. When the interrupt signal arrives the operation
\* in progress completes: no attempt of fetchFollowers ends because of the signal,
\* that is, none comes back with the error of the cancelled context; the driver
\* stops on the signal only where it looks at the context; and the rows committed
\* before the signal are still in the store.
C25_AsStated ==
    /\ resp.do # "ctx"
    /\ pc = "cancelled" =>
          (ctxDone /\ report.msg \in {StopReport(cursor).msg, FetchStopReport.msg})
    /\ ctxDone => IdsOf(run.store0) \subseteq IdsOf(store)

-----------------------------------------------------------------------------
(* The cursors a run goes through, checked under Spec *)

\* the cursors of the upstream from t on are all different
NoRepeat(ch, t) ==
    LET w == Walk(ch, t, Cardinality(Tokens) + 1)
    IN  \A i, j \in 1..Len(w) : i < j => w[i] # w[j]

\* the cursors main has moved on from
Passed == {trail[i] : i \in 1..(Len(trail) - 1)}

\* C26: pages are never revisited. When the upstream repeats no cursor, a cursor
\* main has moved on from is never its cursor again: the cursor in use is the
\* newest of the trail and none of the earlier ones, the URL of a fetch in
\* progress is the one of the cursor in use, the batch handed to saveFollowers is
\* the page of the cursor in use, and no cursor is saved again after a save of it
\* that committed.
C26_NeverRevisited ==
    NoRepeat(chain, startCursor) =>
        /\ cursor = trail[Len(trail)]
        /\ cursor \notin Passed
        /\ \A i, j \in 1..Len(trail) : i < j => trail[i] # trail[j]
        /\ pc \in {"attempt", "request", "backoff"} => url = URL(cursor)
        /\ pc = "save" => followers = chain[cursor].followers
        /\ \A i, j \in 1..Len(saveLog) :
              (i < j /\ saveLog[i].ok) => saveLog[j].token # saveLog[i].token

\* the third page is being requested after a save failed on the way
C26_Witness ==
    /\ NoRepeat(chain, startCursor)
    /\ trail = <<"", "a", "b">>
    /\ pc = "request"
    /\ \E i \in 1..Len(saveLog) : ~saveLog[i].ok

-----------------------------------------------------------------------------
(* The error of the exceeded retries, checked under Spec *)

\* the errors an error returned by fetchFollowers carries with it: ctx.Err() and
\* the error of http.NewRequestWithContext are returned as they are;
\* fmt.Errorf("exceeded max retries for cursor %s", cursor) formats the cursor
\* alone and wraps nothing
ErrCauses(e) == IF e \in {"ctx", "request"} THEN {e} ELSE {}

\* C27 as stated: when the attempts are exhausted, the error fetchFollowers returns
\* carries the cursor that was being fetched and the error of the last attempt, one
\* of the failure classes.
C27_AsStated ==
    (pc = "ret" /\ err = "exhausted") =>
        /\ requests = maxRetries
        /\ ErrCursors(err, cursor) = {cursor}
        /\ ErrCauses(err) \cap Failures # {}

-----------------------------------------------------------------------------
(* The first request of a run, checked under Spec *)

\* fetchFollowers is running, or has returned and main has not looked at the
\* result yet
Fetching == pc \in {"attempt", "request", "backoff", "ret"}

\* C28: the first fetch uses exactly the start cursor. clean_start starts from the
\* empty cursor, the resuming programs from the value of -cursor; while the first
\* call of fetchFollowers runs, its cursor is the start cursor and its URL is the
\* one of the start cursor; and the URL of any call is the base URL alone when the
\* cursor is empty and the base URL followed by &cursor= and the cursor when it is
\* not.
C28_FirstFetch ==
    /\ variant = "clean_start" => startCursor = ""
    /\ (Fetching /\ fetchCalls = 1) =>
          /\ cursor = startCursor
          /\ startCursor = "" => url = baseURL
          /\ startCursor # "" => url = baseURL \o "&cursor=" \o startCursor
    /\ Fetching =>
          /\ cursor = "" <=> url = baseURL
          /\ cursor # "" <=> url = baseURL \o "&cursor=" \o cursor

\* resume_start was started with -cursor a and its first request is in flight
C28_Witness ==
    /\ variant = "resume_start"
    /\ startCursor = "a"
    /\ fetchCalls = 1
    /\ pc = "request"
    /\ url = baseURL \o "&cursor=a"

-----------------------------------------------------------------------------
(* The cancelled context, checked under Spec *)

\* what main and the functions it calls read and write, the context apart
driverVars ==
    <<pc, cursor, attempt, err, followers, newCursor, store, requests, waits, lastFail,
      fetchCalls, saveLog, trail, prevStore, saveErr, lastFault, report, url, resp, txn, jsonData>>

-----------------------------------------------------------------------------
(* The classification of an attempt, checked under Spec *)

\* the response passed every check of fetchFollowers
PassedChecks(r) ==
    /\ r.do = "nil"
    /\ r.status = 200
    /\ r.read = "nil"
    /\ r.body = "json"

\* C30: each attempt has exactly one outcome, found in the order of the checks. An
\* attempt that is backed off failed one check, the first one it meets in the
\* order: no response (a transport failure) whatever else; else a status other
\* than 200, whatever the body is; else a body that could not be read from the
\* connection; else an HTML body, although it is not JSON either; else a body that
\* does not decode. fetchFollowers returns a page only from a response that
\* passed every check, and it is the page of that response; and every row of the
\* store was there at the start or is a record of the page of a cursor of the
\* run, so the records sent with an error status never are.
C30_Classification ==
    /\ pc = "backoff" =>
          /\ lastFail \in Failures
          /\ ~PassedChecks(resp)
          /\ lastFail = "transport" <=> resp.do # "nil"
          /\ lastFail = "status" <=> (resp.do = "nil" /\ resp.status # 200)
          /\ lastFail = "read" <=>
                (resp.do = "nil" /\ resp.status = 200 /\ resp.read # "nil")
          /\ lastFail = "html" <=>
                (resp.do = "nil" /\ resp.status = 200 /\ resp.read = "nil"
                    /\ resp.body = "html")
          /\ lastFail = "decode" <=>
                (resp.do = "nil" /\ resp.status = 200 /\ resp.read = "nil"
                    /\ resp.body \notin {"html", "json"})
    /\ (pc \in {"ret", "save"} /\ err = "nil") =>
          /\ PassedChecks(resp)
          /\ lastFail = "none"
          /\ resp.page = chain[cursor]
          /\ followers = resp.page.followers
          /\ newCursor = resp.page.cursor
    /\ \A row \in RowSet(store) :
          \/ row \in RowSet(run.store0)
          \/ \E i \in 1..Len(trail) : row \in RowSet(chain[trail[i]].followers)
    /\ ErrorPage.followers[1] \notin RowSet(store)

\* an error status came with a JSON body of records, after the first page was
\* saved: the attempt is backed off as a status failure
C30_Witness ==
    /\ pc = "backoff"
    /\ lastFail = "status"
    /\ resp.status = 500 /\ resp.body = "json" /\ resp.page = ErrorPage
    /\ store # <<>> /\ LastSaveOk

-----------------------------------------------------------------------------
(* The page of a call and the attempts before it, checked under Spec *)

\* C31: the page returned is the decode of one response. When an attempt of
\* fetchFollowers ends in the return of a page, the followers and the cursor
\* returned are those of the response of that attempt, which is the page of the
\* cursor asked for, and no record of a body met earlier in the call is among
\* them; and when the sleep after a failed attempt ends, the next attempt starts
\* with the attempt counter one higher and with nothing of the failed attempt:
\* no response, no followers, no cursor, no error.
C31_OneResponse ==
    [][/\ (pc = "request" /\ pc' = "ret") =>
             /\ err' = "nil"
             /\ PassedChecks(resp')
             /\ resp'.page = chain[cursor]
             /\ Page(followers', newCursor') = resp'.page
             /\ attempt' = attempt
       /\ (pc = "backoff" /\ pc' # "backoff") =>
             /\ pc' = "attempt"
             /\ attempt' = attempt + 1
             /\ resp' = NoResponse
             /\ followers' = <<>> /\ newCursor' = "" /\ err' = "nil"
             /\ lastFail' = "none"]_vars

\* the third attempt of a call returned the page, after two attempts that failed
C31_Witness ==
    /\ pc = "ret" /\ err = "nil"
    /\ attempt = 3 /\ waits = <<1, 2>>
    /\ followers # <<>>
    /\ Page(followers, newCursor) = resp.page

-----------------------------------------------------------------------------
(* The context at the top of the retry loop, checked under Spec *)

\* C32: the cancellation is honoured before each attempt. In clean_start and
\* resume_start, when the context is cancelled as attempt k of a call, k from 1 to
\* maxRetries, is about to start, the step fetchFollowers takes is the return of
\* the context's error with no page, and no request is sent for the attempt; a
\* call that finds the context cancelled at its first attempt returns having made
\* no request at all.
C32_CheckBeforeAttempt ==
    [][(pc = "attempt" /\ ctxDone /\ attempt <= maxRetries) =>
          /\ HasCtx(variant)
          /\ pc' = "ret"
          /\ err' = "ctx"
          /\ followers' = <<>> /\ newCursor' = ""
          /\ requests' = requests
          /\ requests = attempt - 1
          /\ attempt = 1 => requests' = 0]_vars

\* the signal fired after main had called fetchFollowers for the second page and
\* before the first attempt: the call returned the context's error without a
\* request
C32_Witness ==
    /\ pc = "ret" /\ err = "ctx"
    /\ requests = 0
    /\ cancelAt = [pc |-> "attempt", attempt |-> 1, call |-> 2]

-----------------------------------------------------------------------------
(* The end of the collection, checked under Spec *)

\* C33: the run ends in DONE on the empty cursor alone. The driver goes to DONE
\* only in the step in which saveFollowers has committed the batch of a page whose
\* cursor is empty, whether the page has records or not; and when saveFollowers has
\* committed the batch of a page whose cursor is not empty, the driver goes on
\* with that cursor, whether the page has records or not.
C33_DoneOnEmptyCursor ==
    [][/\ (pc # "done" /\ pc' = "done") =>
             (pc = "save" /\ SaveStarts /\ saveErr' = "nil" /\ newCursor = ""
                 /\ saveLog'[Len(saveLog')] = [token |-> cursor, ok |-> TRUE])
       /\ (SaveStarts /\ saveErr' = "nil" /\ newCursor = "") => pc' = "done"
       /\ (SaveStarts /\ saveErr' = "nil" /\ newCursor # "") =>
             (pc' = "loop" /\ cursor' = newCursor)
       /\ pc = "done" => pc' = "done"]_vars

\* the first page had no records and the cursor b: its empty batch was committed
\* and the driver went on with b
C33_Witness ==
    /\ chain = ChainGap
    /\ pc = "loop" /\ cursor = "b"
    /\ followers = <<>>
    /\ saveLog = <<[token |-> "", ok |-> TRUE]>>
    /\ store = run.store0

-----------------------------------------------------------------------------
(* The end of a run, checked under FairSpec *)

\* the upstream from the start cursor ends and repeats no cursor
EndsWithoutRepeat == Finite(chain, startCursor) /\ NoRepeat(chain, startCursor)

\* main calls fetchFollowers for the cursor of its previous call
FetchesAgain == FetchStarts /\ fetchCalls >= 1 /\ URL(cursor) = url

-----------------------------------------------------------------------------
(* The transaction at the return of saveFollowers, checked under TxSpec *)

\* C35 as stated: every version of saveFollowers ends the transaction it begins.
\* When saveFollowers has returned after db.Begin succeeded, the transaction is
\* not open: the last call on it was tx.Commit or tx.Rollback; and when the error
\* returned is that of tx.Prepare or of stmt.Exec, the call was tx.Rollback.
C35_AsStated ==
    (pc = "returned" /\ saveErr # "begin") =>
        /\ ~txn.open
        /\ txn.ended \in {"Commit", "Rollback"}
        /\ saveErr \in {"prepare", "exec"} => txn.ended = "Rollback"


-----------------------------------------------------------------------------
(* One id twice in one batch *)

\* the ids that two or more records of the batch carry
DuplicateIds(batch) ==
    {d \in DIDs : Cardinality({i \in 1..Len(batch) : batch[i].DID = d}) >= 2}

\* the first n records of the batch
Prefix(batch, n) == SubSeq(batch, 1, n)

\* C36: last write wins inside one transaction. A batch with two or more records
\* of one id does not make saveFollowers fail: without a database failure the
\* call returns nil. While the loop runs, the transaction holds for every id
\* already written exactly one row, the one of the id's latest record so far;
\* after the commit the table holds for every id the batch repeats exactly one
\* row, carrying the fields of the id's last record in batch order.
C36_LastWriteWins ==
    /\ (pc = "returned" /\ lastFault.op = "none") => saveErr = "nil"
    /\ pc = "exec" =>
          \A d \in IdsOf(Prefix(followers, txn.i - 1)) :
              /\ Rows(txn.table, d) = 1
              /\ \A r \in RowsOf(txn.table, d) :
                    txn.table[r] = LastOf(Prefix(followers, txn.i - 1), d)
    /\ (pc = "returned" /\ saveErr = "nil") =>
          \A d \in DuplicateIds(followers) :
              /\ Rows(store, d) = 1
              /\ \A r \in RowsOf(store, d) : store[r] = LastOf(followers, d)

\* a committed call whose batch names d1 twice with different handles, on a table
\* that held a third version of the row
C36_Witness ==
    /\ pc = "returned" /\ saveErr = "nil" /\ txn.ended = "Commit"
    /\ followers = <<F("d1", "h1", "n1"), F("d1", "h2", "n1")>>
    /\ prevStore = <<F("d1", "h2", "n2")>>
    /\ store = <<F("d1", "h2", "n1")>>


-----------------------------------------------------------------------------
(* Cancellation before failure *)

\* the driver inspects an error of fetchFollowers after the signal has fired
InspectsErrorCancelled == pc = "ret" /\ pc' # pc /\ err # "nil" /\ ctxDone

\* C37: cancellation takes precedence over failure. When fetchFollowers has
\* returned an error, whatever its cause, and the signal has fired by the time the
\* driver inspects it, the driver stops in CANCELLED with the message of a clean
\* stop: it does not go to FAILED, does not sleep to retry, saves nothing and keeps
\* the cursor. A driver that is in FAILED on a fetch error saw no signal.
C37_CancelBeforeFailure ==
    /\ [][InspectsErrorCancelled =>
            /\ pc' = "cancelled"
            /\ report' = FetchStopReport
            /\ cursor' = cursor /\ store' = store /\ saveLog' = saveLog
            /\ fetchCalls' = fetchCalls]_vars
    /\ []((pc = "failed" /\ err # "nil") => ~ctxDone)

\* fetchFollowers of clean_start returned the exceeded-max-retries error with the
\* signal not fired; the signal fired before the driver looked at the error, and
\* the driver stopped in CANCELLED
C37_Witness ==
    /\ variant = "clean_start"
    /\ cancelAt.pc = "ret" /\ cancelAt.attempt = maxRetries + 1
    /\ err = "exhausted" /\ requests = maxRetries
    /\ Status = "CANCELLED"


-----------------------------------------------------------------------------
(* json.Unmarshal(body, &apiResp) *)

MaxRecords == 2

\* JSON values: a key that is not in its object, null, a string, a number, a
\* boolean, an object (its keys with their values) and an array
Absent == [t |-> "absent"]
Null == [t |-> "null"]
Str(s) == [t |-> "string", v |-> s]
Num == [t |-> "number", v |-> 1]
Bool(b) == [t |-> "bool", v |-> b]
Obj(f) == [t |-> "object", v |-> f]
Arr(e) == [t |-> "array", v |-> e]

\* the zero value of time.Time, and a timestamp in RFC 3339
ZeroTime == "0001-01-01T00:00:00Z"
ValidTime == "2024-01-01T00:00:00.000Z"

\* time.Time.UnmarshalJSON accepts the string
IsRFC3339(s) == s = ValidTime

\* the zero values of type Viewer, type Label and type Follower (the scalar fields
\* are represented by DID, Handle and CreatedAt)
ZeroViewer == [Muted |-> FALSE, BlockedBy |-> FALSE, Following |-> ""]
ZeroLabel == [Type |-> "", Value |-> ""]
ZeroFollower ==
    [DID |-> "", Handle |-> "", CreatedAt |-> ZeroTime, Viewer |-> ZeroViewer,
     Labels |-> <<>>]
ZeroAPIResponse == [Followers |-> <<>>, Cursor |-> ""]

\* the result of decoding one value: whether its type fitted, and what the
\* destination holds afterwards
Dec(ok, v) == [ok |-> ok, v |-> v]

\* a JSON value into a Go string: a missing key and null leave the zero value
DecString(j) ==
    CASE j.t = "string" -> Dec(TRUE, j.v)
      [] j.t \in {"absent", "null"} -> Dec(TRUE, "")
      [] OTHER -> Dec(FALSE, "")

\* a JSON value into a Go bool
DecBool(j) ==
    CASE j.t = "bool" -> Dec(TRUE, j.v)
      [] j.t \in {"absent", "null"} -> Dec(TRUE, FALSE)
      [] OTHER -> Dec(FALSE, FALSE)

\* a JSON value into a time.Time: a string that is no RFC 3339 timestamp does not
\* fit the type
DecTime(j) ==
    CASE j.t = "string" /\ IsRFC3339(j.v) -> Dec(TRUE, j.v)
      [] j.t \in {"absent", "null"} -> Dec(TRUE, ZeroTime)
      [] OTHER -> Dec(FALSE, ZeroTime)

\* a JSON value into a Viewer
DecViewer(j) ==
    CASE j.t = "object" ->
            LET m == DecBool(j.v.muted)
                b == DecBool(j.v.blockedBy)
                f == DecString(j.v.following)
            IN  Dec(m.ok /\ b.ok /\ f.ok,
                    [Muted |-> m.v, BlockedBy |-> b.v, Following |-> f.v])
      [] j.t \in {"absent", "null"} -> Dec(TRUE, ZeroViewer)
      [] OTHER -> Dec(FALSE, ZeroViewer)

\* a JSON value into a Label
DecLabel(j) ==
    CASE j.t = "object" ->
            LET t == DecString(j.v.type)
                v == DecString(j.v.value)
            IN  Dec(t.ok /\ v.ok, [Type |-> t.v, Value |-> v.v])
      [] j.t \in {"absent", "null"} -> Dec(TRUE, ZeroLabel)
      [] OTHER -> Dec(FALSE, ZeroLabel)

\* DecLabels with a fault: the key labels is required
DecLabelsRequired(j) ==
    CASE j.t = "array" ->
            LET ds == [i \in 1..Len(j.v) |-> DecLabel(j.v[i])]
            IN  Dec(\A i \in 1..Len(j.v) : ds[i].ok, [i \in 1..Len(j.v) |-> ds[i].v])
      [] j.t = "null" -> Dec(TRUE, <<>>)
      [] OTHER -> Dec(FALSE, <<>>)

\* a JSON value into a []Label: the elements in the order of the array; a missing
\* key and null leave the nil slice
DecLabels(j) ==
    CASE j.t = "array" ->
            LET ds == [i \in 1..Len(j.v) |-> DecLabel(j.v[i])]
            IN  Dec(\A i \in 1..Len(j.v) : ds[i].ok, [i \in 1..Len(j.v) |-> ds[i].v])
      [] j.t \in {"absent", "null"} -> Dec(TRUE, <<>>)
      [] OTHER -> Dec(FALSE, <<>>)

\* a JSON value into a Follower
DecFollower(j) ==
    CASE j.t = "object" ->
            LET d == DecString(j.v.did)
                h == DecString(j.v.handle)
                c == DecTime(j.v.createdAt)
                w == DecViewer(j.v.viewer)
                l == DecLabels(j.v.labels)
            IN  Dec(d.ok /\ h.ok /\ c.ok /\ w.ok /\ l.ok,
                    [DID |-> d.v, Handle |-> h.v, CreatedAt |-> c.v, Viewer |-> w.v,
                     Labels |-> l.v])
      [] j.t \in {"absent", "null"} -> Dec(TRUE, ZeroFollower)
      [] OTHER -> Dec(FALSE, ZeroFollower)

\* a JSON value into a []Follower
DecFollowers(j) ==
    CASE j.t = "array" ->
            LET ds == [i \in 1..Len(j.v) |-> DecFollower(j.v[i])]
            IN  Dec(\A i \in 1..Len(j.v) : ds[i].ok, [i \in 1..Len(j.v) |-> ds[i].v])
      [] j.t \in {"absent", "null"} -> Dec(TRUE, <<>>)
      [] OTHER -> Dec(FALSE, <<>>)

\* a JSON value into an APIResponse
DecAPIResponse(j) ==
    CASE j.t = "object" ->
            LET f == DecFollowers(j.v.followers)
                c == DecString(j.v.cursor)
            IN  Dec(f.ok /\ c.ok, [Followers |-> f.v, Cursor |-> c.v])
      [] j.t \in {"absent", "null"} -> Dec(TRUE, ZeroAPIResponse)
      [] OTHER -> Dec(FALSE, ZeroAPIResponse)

\* var apiResp APIResponse; err := json.Unmarshal(body, &apiResp): bytes that are
\* no JSON give a syntax error before anything is decoded; a value that does not
\* fit its field gives a type error after the rest was decoded
Unmarshal(b) ==
    IF ~b.valid THEN [err |-> "syntax", apiResp |-> ZeroAPIResponse]
    ELSE LET d == DecAPIResponse(b.json)
         IN  [err |-> IF d.ok THEN "nil" ELSE "type", apiResp |-> d.v]

\* the viewer objects of the bodies: complete, without any key, with a string
\* where a boolean belongs
FullViewer ==
    Obj([muted |-> Bool(TRUE), blockedBy |-> Bool(FALSE), following |-> Str("at://f")])

ViewersJ ==
    {Absent, Null, Str("x"),
     Obj([muted |-> Absent, blockedBy |-> Absent, following |-> Absent]),
     Obj([muted |-> Str("yes"), blockedBy |-> Absent, following |-> Str("at://f")])}

\* the label lists of the bodies: absent, null, empty, with a label that lacks
\* its type, with a label whose type is a number, and a string in place of the list
FullLabels ==
    Arr(<<Obj([type |-> Str("type1"), value |-> Str("value1")]),
          Obj([type |-> Str("type2"), value |-> Str("value2")])>>)

LabelsJ ==
    {Absent, Null, Str("x"), Arr(<<>>),
     Arr(<<Obj([type |-> Absent, value |-> Str("value1")])>>),
     Arr(<<Obj([type |-> Num, value |-> Str("value1")])>>)}

\* the record of TestAPIResponseUnmarshal: every key present
FullRecord ==
    [did |-> Str("d1"), handle |-> Str("h1"), createdAt |-> Str(ValidTime),
     viewer |-> FullViewer, labels |-> FullLabels]

EmptyRecord ==
    [did |-> Absent, handle |-> Absent, createdAt |-> Absent, viewer |-> Absent,
     labels |-> Absent]

\* what a body can hold under key k in place of the value of the full record
Alternatives(k) ==
    CASE k = "did" -> {Absent, Null, Num, Str("d2")}
      [] k = "handle" -> {Absent, Num}
      [] k = "createdAt" -> {Absent, Num, Str("yesterday")}
      [] k = "viewer" -> ViewersJ
      [] k = "labels" -> LabelsJ

\* the elements of the followers array: the full record, the record with one key
\* changed, the object without keys, null and a number
RecordsJ ==
    {Obj(FullRecord), Obj(EmptyRecord), Null, Num}
        \cup UNION {{Obj([FullRecord EXCEPT ![k] = x]) : x \in Alternatives(k)} :
                        k \in DOMAIN FullRecord}

FollowersJ == {Absent, Null, Str("x")} \cup {Arr(s) : s \in SeqsUpTo(RecordsJ, MaxRecords)}

CursorsJ == {Absent, Null, Num, Str("b")}

\* the bodies with status 200 that are not HTML: bytes that are no JSON, and the
\* JSON values null, an array, a string and an object
Bodies ==
    {[valid |-> FALSE, json |-> Absent]}
        \cup {[valid |-> TRUE, json |-> j] : j \in {Null, Arr(<<>>), Str("x")}}
        \cup {[valid |-> TRUE, json |-> Obj([followers |-> f, cursor |-> c])] :
                 f \in FollowersJ, c \in CursorsJ}

DecodeInit ==
    /\ variant = "resume_start"
    /\ chain = <<>>
    /\ startCursor = ""
    /\ pc = "parse"
    /\ cursor = ""
    /\ ctxDone = FALSE
    /\ attempt = 1
    /\ err = "nil"
    /\ followers = <<>>
    /\ newCursor = ""
    /\ store = <<>>
    /\ requests = 1
    /\ waits = <<>>
    /\ lastFail = "none"
    /\ fetchCalls = 1
    /\ saveLog = <<>>
    /\ trail = <<"">>
    /\ prevStore = store
    /\ saveErr = "nil"
    /\ lastFault = [op |-> "none", k |-> 0]
    /\ cancelAt = NotCancelled
    /\ report = NoReport
    /\ run = FirstRun(variant, startCursor, store)
    /\ labels = <<>>
    /\ labelStr = ""
    /\ url = URL(cursor)
    /\ resp = NoResponse
    /\ txn = NoTx
    /\ jsonData \in Bodies

\* fetchFollowers from "Parsing JSON response" on: the decode fails, the attempt
\* sleeps and the loop continues; or the followers and the cursor are returned
Parse ==
    /\ pc = "parse"
    /\ LET u == Unmarshal(jsonData)
       IN  IF u.err # "nil"
           THEN /\ pc' = "backoff"
                /\ lastFail' = "decode"
                /\ waits' = Append(waits, Backoff(attempt))
                /\ UNCHANGED <<followers, newCursor, err>>
           ELSE /\ Return(u.apiResp.Followers, u.apiResp.Cursor, "nil")
                /\ UNCHANGED <<lastFail, waits>>
    /\ UNCHANGED <<variant, chain, startCursor, cursor, ctxDone, attempt, store, requests,
                   fetchCalls, saveLog, trail, prevStore, saveErr, lastFault, cancelAt,
                   report, run, labels, labelStr, url, resp, txn, jsonData>>

DecodeNext == Parse

DecodeSpec == DecodeInit /\ [][DecodeNext]_vars


\* the value is missing, null, or of JSON type t
Fits(j, t) == j.t \in {"absent", "null", t}

\* the string the value holds, "" when it is missing or null
StringOf(j) == IF j.t = "string" THEN j.v ELSE ""

BoolOf(j) == IF j.t = "bool" THEN j.v ELSE FALSE

\* every value that is present has the type of the field it is for
WellTypedViewer(j) ==
    /\ Fits(j, "object")
    /\ j.t = "object" =>
          /\ Fits(j.v.muted, "bool")
          /\ Fits(j.v.blockedBy, "bool")
          /\ Fits(j.v.following, "string")

WellTypedLabels(j) ==
    /\ Fits(j, "array")
    /\ j.t = "array" =>
          \A i \in 1..Len(j.v) :
              /\ Fits(j.v[i], "object")
              /\ j.v[i].t = "object" =>
                    (Fits(j.v[i].v.type, "string") /\ Fits(j.v[i].v.value, "string"))

WellTypedRecord(j) ==
    /\ Fits(j, "object")
    /\ j.t = "object" =>
          /\ Fits(j.v.did, "string")
          /\ Fits(j.v.handle, "string")
          /\ Fits(j.v.createdAt, "string")
          /\ j.v.createdAt.t = "string" => IsRFC3339(j.v.createdAt.v)
          /\ WellTypedViewer(j.v.viewer)
          /\ WellTypedLabels(j.v.labels)

WellTyped(j) ==
    /\ Fits(j, "object")
    /\ j.t = "object" =>
          /\ Fits(j.v.cursor, "string")
          /\ Fits(j.v.followers, "array")
          /\ j.v.followers.t = "array" =>
                \A i \in 1..Len(j.v.followers.v) : WellTypedRecord(j.v.followers.v[i])

\* the elements of the followers array of the body, none when the key is missing
RecordsOf(j) ==
    IF j.t = "object" /\ j.v.followers.t = "array" THEN j.v.followers.v ELSE <<>>

\* record f is JSON object e decoded: what e holds, and the zero value for what it
\* lacks
DecodedFrom(f, e) ==
    IF e.t # "object" THEN f = ZeroFollower
    ELSE /\ f.DID = StringOf(e.v.did)
         /\ f.Handle = StringOf(e.v.handle)
         /\ f.CreatedAt = (IF e.v.createdAt.t = "string" THEN e.v.createdAt.v ELSE ZeroTime)
         /\ e.v.viewer.t # "object" => f.Viewer = ZeroViewer
         /\ e.v.viewer.t = "object" =>
               /\ f.Viewer.Muted = BoolOf(e.v.viewer.v.muted)
               /\ f.Viewer.BlockedBy = BoolOf(e.v.viewer.v.blockedBy)
               /\ f.Viewer.Following = StringOf(e.v.viewer.v.following)
         /\ e.v.labels.t # "array" => f.Labels = <<>>
         /\ e.v.labels.t = "array" =>
               /\ Len(f.Labels) = Len(e.v.labels.v)
               /\ \A k \in 1..Len(f.Labels) :
                     IF e.v.labels.v[k].t # "object" THEN f.Labels[k] = ZeroLabel
                     ELSE /\ f.Labels[k].Type = StringOf(e.v.labels.v[k].v.type)
                          /\ f.Labels[k].Value = StringOf(e.v.labels.v[k].v.value)

\* C38: decoding tolerates absent optional parts. A body that is JSON and in which
\* every value that is present has the type of its field decodes without error,
\* whether or not the cursor, the followers list, the viewer object, the labels
\* list (missing or empty) or a scalar field of a record is there: fetchFollowers
\* returns one record per element of the followers array, in the order of the
\* array, each with the values its object holds and zero values for what is
\* missing, and the cursor of the body or "" when there is none. The decode fails
\* only when the bytes are no JSON or a value has the wrong type, and then
\* fetchFollowers returns nothing of the body: it counts a failed attempt, sleeps
\* its backoff and goes on to the next attempt.
C38_DecodeTolerance ==
    /\ pc # "parse" =>
          (pc = "ret" <=> (jsonData.valid /\ WellTyped(jsonData.json)))
    /\ pc = "ret" =>
          /\ err = "nil"
          /\ newCursor = (IF jsonData.json.t = "object"
                          THEN StringOf(jsonData.json.v.cursor) ELSE "")
          /\ Len(followers) = Len(RecordsOf(jsonData.json))
          /\ \A i \in 1..Len(followers) :
                DecodedFrom(followers[i], RecordsOf(jsonData.json)[i])
    /\ pc = "backoff" =>
          /\ lastFail = "decode"
          /\ waits = <<Backoff(attempt)>>
          /\ followers = <<>> /\ newCursor = "" /\ err = "nil"

\* a body without cursor whose first record lacks the labels and whose second
\* record lacks the viewer was decoded: two records in that order, the first
\* without labels, the second with the zero viewer, and the empty cursor
C38_Witness ==
    /\ pc = "ret"
    /\ jsonData.json =
          Obj([followers |-> Arr(<<Obj([FullRecord EXCEPT !.labels = Absent]),
                                   Obj([FullRecord EXCEPT !.viewer = Absent])>>),
               cursor |-> Absent])
    /\ Len(followers) = 2
    /\ followers[1].Labels = <<>> /\ followers[1].Viewer.Muted
    /\ followers[2].Viewer = ZeroViewer /\ Len(followers[2].Labels) = 2
    /\ newCursor = ""

====
